---- MODULE Spec2Model ----
(***************************************************************************)
(* Model of ckan-sync (src/sync.py): one-directional synchronisation of    *)
(* organizations, packages and resources from a source CKAN instance to a  *)
(* target CKAN instance.                                                   *)
(*                                                                         *)
(* Python strings that the program parses or builds (resource ids,         *)
(* revision markers, the 'hash' field, titles) are sequences of one-       *)
(* character strings; names that are only compared (package and            *)
(* organization names) are TLA+ strings.  The program is sequential, so    *)
(* every handler is an operator from a run record to a run record; the     *)
(* only nondeterminism is the input and which write call (if any) the      *)
(* target answers with a failure.                                          *)
(***************************************************************************)
EXTENDS Integers, Sequences, FiniteSets, TLC

VARIABLES source, target, files, log, err, pc, args, runs, last_revid, exit

vars == <<source, target, files, log, err, pc, args, runs, last_revid, exit>>

----------------------------------------------------------------------------
(* Bounds of the model *)

\* longest source resource list enumerated
MaxSrcRes == 2
\* longest target resource list enumerated
MaxTgtRes == 2
\* a failure is injected at the k-th write call of a run, k in 1..MaxFail
MaxFail == 3
\* the number of successive calls of a handler in one behaviour
MaxRuns == 2
\* the number of revisions the source returns per revision_list call
RevisionPage == 100

\* the most packages of a source listed with their resources
MaxPackages == 22
\* the source records revisions during sync_loop up to a log of this length
MaxRevisions == 3

----------------------------------------------------------------------------
(* Python values *)

\* None, as the value of a dict.get() on a missing or null key
None == <<"None">>

Str(c) == <<c>>

Range(s) == {s[i] : i \in 1..Len(s)}

\* position of the first occurrence of character c in s, 0 when there is none
IndexOf(s, c) ==
  IF \E i \in 1..Len(s) : s[i] = c
  THEN CHOOSE i \in 1..Len(s) : s[i] = c /\ \A j \in 1..(i - 1) : s[j] # c
  ELSE 0

\* str.split(':', 1): at most one split, at the first ':'
split_1(s) ==
  LET i == IndexOf(s, ":")
  IN  IF i = 0 THEN <<s>>
      ELSE <<SubSeq(s, 1, i - 1), SubSeq(s, i + 1, Len(s))>>

\* Python dict with insertion order, as a sequence of [k, v] pairs
DictHas(d, k) == \E i \in 1..Len(d) : d[i].k = k

DictGet(d, k) == d[CHOOSE i \in 1..Len(d) : d[i].k = k].v

\* d[k] = v: an existing key keeps its position and gets the new value
DictSet(d, k, v) ==
  IF DictHas(d, k)
  THEN [i \in 1..Len(d) |-> IF d[i].k = k THEN [k |-> k, v |-> v] ELSE d[i]]
  ELSE Append(d, [k |-> k, v |-> v])

SeqRemoveAt(s, i) == SubSeq(s, 1, i - 1) \o SubSeq(s, i + 1, Len(s))

\* d.pop(k), the dict left behind
DictPop(d, k) == SeqRemoveAt(d, CHOOSE i \in 1..Len(d) : d[i].k = k)

----------------------------------------------------------------------------
(* class Resource *)

\* Resource.parse_hash: the marker '<id>:<revision>' of the hash field.
\* A hash without ':' (the empty one too) unpacks one value into two names:
\* ValueError, caught.  A hash of None has no split(): AttributeError, which
\* the except clause does not catch.
parse_hash(hash) ==
  IF hash = None
  THEN [raised |-> "AttributeError", original_id |-> <<>>, original_revision |-> <<>>]
  ELSE LET parts == split_1(hash)
       IN  IF Len(parts) # 2
           THEN [raised |-> "", original_id |-> <<>>, original_revision |-> <<>>]
           ELSE [raised |-> "", original_id |-> parts[1],
                 original_revision |-> parts[2]]

\* Resource.create_hash
create_hash(res) == res.id \o Str(":") \o res.revision_id

\* Resource.create_filename: '<id>-<basename of url>'
create_filename(res) == res.id \o Str("-") \o res.url

\* same_as_source comparing the revision_id only
same_as_source_revision_only(t_res, source_res) ==
  /\ t_res.original_id = source_res.id
  /\ t_res.original_revision = source_res.revision_id

\* Resource.same_as_source, on the parsed marker of a target resource
same_as_source(t_res, source_res) ==
  /\ t_res.original_id = source_res.id
  /\ t_res.original_revision \in {source_res.revision_id, source_res.last_modified}

\* Resource.for_upload: the fields sent to the target; of these the model
\* keeps the package and the marker
for_upload(res, package_name) ==
  [package_id |-> package_name, hash |-> create_hash(res)]

----------------------------------------------------------------------------
(* The target instance behind CkanApi.api_action *)

\* a write call as issued to the target: the action, the name of the
\* organization or package it addresses, the target resource id it
\* addresses, its JSON or form body, and the name of the attached file
Call(op, name, rid, data, file) ==
  [op |-> op, name |-> name, rid |-> rid, data |-> data, file |-> file]

NoData == [none |-> TRUE]

\* the actions the program posts
WriteOps ==
  {"organization_create", "organization_patch", "package_create",
   "package_patch", "dataset_purge", "resource_create", "resource_update",
   "resource_delete"}

IsWrite(e) == e.op \in WriteOps

HasResource(tgt, rid) ==
  \E p \in DOMAIN tgt.pkgs :
    \E i \in 1..Len(tgt.pkgs[p].resources) : tgt.pkgs[p].resources[i].id = rid

WithoutResource(s, rid) ==
  LET keep(r) == r.id # rid IN SelectSeq(s, keep)

Restrict(f, S) == [x \in S |-> f[x]]

\* the target answers a call with an error status of its own accord
Rejects(tgt, c) ==
  CASE c.op = "resource_create" -> c.data.package_id \notin DOMAIN tgt.pkgs
    [] c.op = "resource_update" -> ~HasResource(tgt, c.rid)
    [] c.op = "resource_delete" -> ~HasResource(tgt, c.rid)
    [] c.op = "package_create" ->
         c.name \in DOMAIN tgt.pkgs \/ c.data.owner_org \notin DOMAIN tgt.orgs
    [] c.op = "package_patch" ->
         c.name \notin DOMAIN tgt.pkgs \/ c.data.owner_org \notin DOMAIN tgt.orgs
    [] c.op = "dataset_purge" -> c.name \notin DOMAIN tgt.pkgs
    [] c.op = "organization_create" -> c.name \in DOMAIN tgt.orgs
    [] c.op = "organization_patch" -> c.name \notin DOMAIN tgt.orgs
    [] OTHER -> FALSE

\* the effect of a successful call on the target
ApplyCall(tgt, c) ==
  CASE c.op = "resource_create" ->
         [tgt EXCEPT !.pkgs[c.data.package_id].resources =
                        Append(@, [id |-> tgt.nextId, hash |-> c.data.hash]),
                     !.nextId = @ + 1]
    [] c.op = "resource_update" ->
         [tgt EXCEPT !.pkgs =
            [p \in DOMAIN tgt.pkgs |->
               [tgt.pkgs[p] EXCEPT !.resources =
                  [i \in 1..Len(tgt.pkgs[p].resources) |->
                     IF tgt.pkgs[p].resources[i].id = c.rid
                     THEN [tgt.pkgs[p].resources[i] EXCEPT !.hash = c.data.hash]
                     ELSE tgt.pkgs[p].resources[i]]]]]
    [] c.op = "resource_delete" ->
         [tgt EXCEPT !.pkgs =
            [p \in DOMAIN tgt.pkgs |->
               [tgt.pkgs[p] EXCEPT !.resources = WithoutResource(@, c.rid)]]]
    [] c.op = "package_create" ->
         [tgt EXCEPT !.pkgs =
            [p \in DOMAIN tgt.pkgs \cup {c.name} |->
               IF p = c.name
               THEN [title |-> c.data.title, state |-> c.data.state,
                     organization |-> c.data.owner_org,
                     extras |-> c.data.extras, resources |-> <<>>]
               ELSE tgt.pkgs[p]]]
    [] c.op = "package_patch" ->
         [tgt EXCEPT !.pkgs[c.name] =
            [title |-> c.data.title, state |-> c.data.state,
             organization |-> c.data.owner_org,
             extras |-> c.data.extras, resources |-> @.resources]]
    [] c.op = "dataset_purge" ->
         [tgt EXCEPT !.pkgs = Restrict(tgt.pkgs, DOMAIN tgt.pkgs \ {c.name})]
    [] c.op = "organization_create" ->
         [tgt EXCEPT !.orgs =
            [o \in DOMAIN tgt.orgs \cup {c.name} |->
               IF o = c.name
               THEN [title |-> c.data.title, extras |-> c.data.extras,
                     image_display_url |-> <<>>]
               ELSE tgt.orgs[o]]]
    [] c.op = "organization_patch" ->
         IF c.file = None
         THEN [tgt EXCEPT !.orgs[c.name] =
                 [title |-> c.data.title, extras |-> c.data.extras,
                  image_display_url |-> @.image_display_url]]
         \* an uploaded image is stored under a timestamp-prefixed name
         ELSE [tgt EXCEPT !.orgs[c.name].image_display_url =
                 <<"/", "TS">> \o c.file]
    [] OTHER -> tgt

----------------------------------------------------------------------------
(* A run of the program: the target and scratch directory it acts on, the   *)
(* calls it has issued, and the exception (if any) that is propagating.     *)

\* failAt = k > 0: the target fails the k-th write call of the run, with an
\* error status (failKind "status") or with 'success': false in a 2xx body
NewRun(tgt, fs, failAt, failKind) ==
  [target |-> tgt, files |-> fs, log |-> <<>>, err |-> "", nwrites |-> 0,
   failAt |-> failAt, failKind |-> failKind, byoid |-> <<>>]

Raise(st, exc) == IF st.err # "" THEN st ELSE [st EXCEPT !.err = exc]

Event(c, ok) ==
  [op |-> c.op, name |-> c.name, rid |-> c.rid, data |-> c.data,
   file |-> c.file, ok |-> ok]

\* the response to the n-th write call of the run
Response(st, c, n) ==
  IF st.failAt = n
  THEN (IF st.failKind = "status" THEN [status |-> 500, success |-> FALSE]
        ELSE [status |-> 200, success |-> FALSE])
  ELSE IF Rejects(st.target, c) THEN [status |-> 409, success |-> FALSE]
  ELSE [status |-> 200, success |-> TRUE]

\* api_action without the test of the success flag
api_action_status_only(st, c) ==
  IF st.err # "" THEN st
  ELSE LET n == st.nwrites + 1
           r == Response(st, c, n)
           sent == [st EXCEPT !.nwrites = n]
       IN  IF r.status >= 400
           THEN [sent EXCEPT !.log = Append(@, Event(c, FALSE)), !.err = "HTTPError"]
           ELSE [sent EXCEPT !.log = Append(@, Event(c, r.success))]

\* CkanApi.api_action with a json or data body: POST, raise_for_status,
\* then an Exception unless the body says success
api_action(st, c) ==
  IF st.err # "" THEN st
  ELSE LET n == st.nwrites + 1
           r == Response(st, c, n)
           sent == [st EXCEPT !.nwrites = n]
       IN  IF r.status >= 400
           THEN [sent EXCEPT !.log = Append(@, Event(c, FALSE)), !.err = "HTTPError"]
           ELSE IF ~r.success
           THEN [sent EXCEPT !.log = Append(@, Event(c, FALSE)), !.err = "Exception"]
           ELSE [sent EXCEPT !.log = Append(@, Event(c, TRUE)),
                             !.target = ApplyCall(@, c)]

\* CkanApi.create_resource
create_resource(st, resource_dict, file) ==
  api_action(st, Call("resource_create", resource_dict.package_id, 0, resource_dict, file))

\* CkanApi.update_resource
update_resource(st, resource_dict, rid, file) ==
  api_action(st, Call("resource_update", resource_dict.package_id, rid, resource_dict, file))

\* CkanApi.delete_resource
delete_resource(st, resource_id) ==
  api_action(st, Call("resource_delete", "", resource_id, NoData, None))

----------------------------------------------------------------------------
(* class CkanSync: resources *)

\* CkanSync.download_file: requests.get refuses a URL without a scheme
download_file(st, url, filename) ==
  IF st.err # "" THEN st
  ELSE IF url = <<>> THEN Raise(st, "MissingSchema")
  ELSE [st EXCEPT !.files = @ \cup {filename}]

\* os.remove
os_remove(st, filename) ==
  IF st.err # "" THEN st ELSE [st EXCEPT !.files = @ \ {filename}]

\* step 1 without the test for an empty embedded id
RECURSIVE resources_by_oid_keep_empty(_, _, _)
resources_by_oid_keep_empty(st, target_reslist, i) ==
  IF st.err # "" \/ i > Len(target_reslist) THEN st
  ELSE LET target_res == target_reslist[i]
           parsed == parse_hash(target_res.hash)
           res == [id |-> target_res.id,
                   original_id |-> parsed.original_id,
                   original_revision |-> parsed.original_revision]
       IN  IF parsed.raised # "" THEN Raise(st, parsed.raised)
           ELSE resources_by_oid_keep_empty(
                  [st EXCEPT !.byoid = DictSet(@, res.original_id, res)],
                  target_reslist, i + 1)

\* sync_package_resources, step 1: the dict of target resources by the
\* source id embedded in their marker; a target resource without one is
\* deleted at once
RECURSIVE resources_by_oid(_, _, _)
resources_by_oid(st, target_reslist, i) ==
  IF st.err # "" \/ i > Len(target_reslist) THEN st
  ELSE LET target_res == target_reslist[i]
           parsed == parse_hash(target_res.hash)
           res == [id |-> target_res.id,
                   original_id |-> parsed.original_id,
                   original_revision |-> parsed.original_revision]
       IN  IF parsed.raised # "" THEN Raise(st, parsed.raised)
           ELSE IF Len(res.original_id) = 0
           THEN resources_by_oid(delete_resource(st, res.id), target_reslist, i + 1)
           ELSE resources_by_oid(
                  [st EXCEPT !.byoid = DictSet(@, res.original_id, res)],
                  target_reslist, i + 1)

\* sync_package_resources, step 2, for one source resource
sync_source_resource(st, source_res, package_name) ==
  LET parsed == parse_hash(source_res.hash)
      upload == source_res.url_type = "upload"
      filename == create_filename(source_res)
      file == IF upload THEN filename ELSE None
      fetched == IF upload THEN download_file(st, source_res.url, filename) ELSE st
  IN  IF st.err # "" THEN st
      ELSE IF parsed.raised # "" THEN Raise(st, parsed.raised)
      ELSE IF ~DictHas(st.byoid, source_res.id)
      THEN LET done == create_resource(fetched, for_upload(source_res, package_name), file)
           IN  IF upload THEN os_remove(done, filename) ELSE done
      ELSE LET t_res == DictGet(st.byoid, source_res.id)
               popped == [st EXCEPT !.byoid = DictPop(@, source_res.id)]
           IN  IF same_as_source(t_res, source_res) THEN popped
               ELSE LET done ==
                          update_resource(
                            [fetched EXCEPT !.byoid = popped.byoid],
                            for_upload(source_res, package_name), t_res.id, file)
                    IN  IF upload THEN os_remove(done, filename) ELSE done

RECURSIVE sync_source_resources(_, _, _, _)
sync_source_resources(st, source_reslist, i, package_name) ==
  IF st.err # "" \/ i > Len(source_reslist) THEN st
  ELSE sync_source_resources(
         sync_source_resource(st, source_reslist[i], package_name),
         source_reslist, i + 1, package_name)

\* sync_package_resources, step 3: delete what is left in the dict
RECURSIVE delete_remaining(_, _, _)
delete_remaining(st, remaining, i) ==
  IF st.err # "" \/ i > Len(remaining) THEN st
  ELSE delete_remaining(delete_resource(st, remaining[i].v.id), remaining, i + 1)

\* sync_package_resources, step 3, over list(t_resources_by_oid.values())
delete_values(st) == delete_remaining(st, st.byoid, 1)

\* CkanSync.sync_package_resources
sync_package_resources(st, source_reslist, target_reslist, package_name) ==
  delete_values(
    sync_source_resources(
      resources_by_oid([st EXCEPT !.byoid = <<>>], target_reslist, 1),
      source_reslist, 1, package_name))

----------------------------------------------------------------------------
(* Entity normalizers *)

IsSpace(c) == c = " "

RECURSIVE lstrip(_)
lstrip(s) == IF s # <<>> /\ IsSpace(Head(s)) THEN lstrip(Tail(s)) ELSE s

RECURSIVE rstrip(_)
rstrip(s) ==
  IF s # <<>> /\ IsSpace(s[Len(s)]) THEN rstrip(SubSeq(s, 1, Len(s) - 1)) ELSE s

\* str.strip()
strip(s) == rstrip(lstrip(s))

\* the order of the one-character keys of extras
Ord(c) == CASE c = "a" -> 1 [] c = "b" -> 2 [] c = "c" -> 3 [] OTHER -> 0

\* x put into the sorted list s, after the entries whose key is not greater
RECURSIVE insort(_, _)
insort(s, x) ==
  IF s = <<>> THEN <<x>>
  ELSE IF Ord(x.key) < Ord(Head(s).key) THEN <<x>> \o s
  ELSE <<Head(s)>> \o insort(Tail(s), x)

\* sorted(extras, key=lambda x: x['key'])
RECURSIVE sorted_by_key(_, _)
sorted_by_key(s, acc) ==
  IF s = <<>> THEN acc ELSE sorted_by_key(Tail(s), insort(acc, Head(s)))

\* an organization reference of null
NoOrganization == ""

\* class PackageMetadata: the allowlisted fields (title stands for the
\* string fields, extras for the sorted sub-lists), whitespace stripped from
\* the top-level strings, owner_org from package_dict['organization']['name']
PackageMetadata(name, package_dict) ==
  [name |-> name,
   title |-> strip(package_dict.title),
   state |-> package_dict.state,
   extras |-> sorted_by_key(package_dict.extras, <<>>),
   owner_org |-> package_dict.organization]

\* class Organization: the allowlisted fields, extras sorted
Organization(name, org_dict) ==
  [name |-> name,
   title |-> org_dict.title,
   extras |-> sorted_by_key(org_dict.extras, <<>>)]

\* os.path.basename
RECURSIVE basename(_)
basename(url) ==
  LET i == IndexOf(url, "/")
  IN  IF i = 0 THEN url ELSE basename(SubSeq(url, i + 1, Len(url)))

\* Organization.image_name: the file name without the timestamp the
\* instance puts before the name of an upload ("TS" stands for a prefix
\* matching [\d-]+\.\d{6})
image_name(image_url) ==
  LET filename == basename(image_url)
  IN  IF filename # <<>> /\ Head(filename) = "TS" THEN Tail(filename) ELSE filename

----------------------------------------------------------------------------
(* CkanApi: reads, and the writes of organizations and packages *)

\* the names of a catalog in the order the instance lists them
NameOrder ==
  <<"o1", "o2", "p1", "p2", "p3">> \o [i \in 1..MaxPackages |-> ToString(i)]

Listed(S) == LET in(n) == n \in S IN SelectSeq(NameOrder, in)

\* CkanApi.list_organizations
list_organizations(cat) == Listed(DOMAIN cat.orgs)

\* CkanApi.get_organization: <<>> stands for a result of None
get_organization(cat, org_name) ==
  IF org_name \in DOMAIN cat.orgs THEN <<cat.orgs[org_name]>> ELSE <<>>

\* CkanApi.list_packages: package_list names the active datasets
list_packages(cat) ==
  Listed({n \in DOMAIN cat.pkgs : cat.pkgs[n].state = "active"})

\* CkanApi.get_package: <<>> stands for a result of None
get_package(cat, package_name) ==
  IF package_name \in DOMAIN cat.pkgs THEN <<cat.pkgs[package_name]>> ELSE <<>>

\* CkanApi.create_organization
create_organization(st, org) ==
  api_action(st, Call("organization_create", org.name, 0, org, None))

\* CkanApi.patch_organization
patch_organization(st, org_name, org_dict, file) ==
  api_action(st, Call("organization_patch", org_name, 0, org_dict, file))

\* CkanApi.create_package
create_package(st, package_dict) ==
  api_action(st, Call("package_create", package_dict.name, 0, package_dict, None))

\* CkanApi.patch_package
patch_package(st, package_dict) ==
  api_action(st, Call("package_patch", package_dict.name, 0, package_dict, None))

\* purge_package issuing no call
purge_package_skipped(st, package_name) == st

\* CkanApi.purge_package
purge_package(st, package_name) ==
  api_action(st, Call("dataset_purge", package_name, 0, NoData, None))

----------------------------------------------------------------------------
(* class CkanSync: organizations and packages *)

\* a call of a method of CkanSync, or a read of the source, noted in the log
Note(st, op, name) ==
  IF st.err # "" THEN st
  ELSE [st EXCEPT !.log = Append(@, Event(Call(op, name, 0, NoData, None), TRUE))]

\* sync_image, local to sync_org
sync_image(st, org_name, image_url) ==
  LET filename == image_name(image_url)
      fetched == download_file(st, image_url, filename)
      patched == patch_organization(fetched, org_name, [name |-> org_name], filename)
  IN  os_remove(patched, filename)

\* sync_org creating the organization whether or not the target has it
sync_org_always_creates(st, src, org_name) ==
  LET s_full == get_organization(src, org_name)
  IN  IF st.err # "" THEN st
      ELSE IF s_full = <<>> THEN Raise(st, "AttributeError")
      ELSE sync_image(create_organization(st, Organization(org_name, s_full[1])),
                      org_name, s_full[1].image_display_url)

\* CkanSync.sync_org
sync_org(st, src, org_name) ==
  LET s_full == get_organization(src, org_name)
      t_full == get_organization(st.target, org_name)
  IN  IF st.err # "" THEN st
      \* Organization(None): None has no get()
      ELSE IF s_full = <<>> THEN Raise(st, "AttributeError")
      ELSE LET s_org == Organization(org_name, s_full[1])
               s_image == s_full[1].image_display_url
           IN  IF t_full = <<>>
               THEN sync_image(create_organization(st, s_org), org_name, s_image)
               ELSE LET t_org == Organization(org_name, t_full[1])
                        t_image == t_full[1].image_display_url
                        patched == IF s_org # t_org
                                   THEN patch_organization(st, org_name, s_org, None)
                                   ELSE st
                    IN  IF image_name(s_image) # image_name(t_image)
                        THEN sync_image(patched, org_name, s_image)
                        ELSE patched

\* sync_package leaving the resources alone when the metadata are equal
sync_package_dict_resources_on_change(st, package_name, s_pack) ==
  LET t_pack == get_package(st.target, package_name)
  IN  IF st.err # "" THEN st
      ELSE IF s_pack # <<>>
      THEN IF s_pack[1].organization = NoOrganization
           THEN Raise(st, "TypeError")
           ELSE
           LET s_package_meta == PackageMetadata(package_name, s_pack[1])
               s_resources == s_pack[1].resources
               t_resources == IF t_pack # <<>> THEN t_pack[1].resources ELSE <<>>
               resources(s) ==
                 sync_package_resources(
                   Note(s, "sync_package_resources", package_name),
                   s_resources, t_resources, package_name)
           IN  IF t_pack = <<>>
               THEN resources(create_package(st, s_package_meta))
               ELSE IF s_package_meta # PackageMetadata(package_name, t_pack[1])
               THEN IF s_package_meta.state = "deleted"
                    THEN purge_package(st, package_name)
                    ELSE resources(patch_package(st, s_package_meta))
               ELSE st
      ELSE IF t_pack # <<>> THEN purge_package(st, package_name) ELSE st

\* sync_package once the source copy (<<>> for None) is at hand
sync_package_dict(st, package_name, s_pack) ==
  LET t_pack == get_package(st.target, package_name)
  IN  IF st.err # "" THEN st
      ELSE IF s_pack # <<>>
      THEN IF s_pack[1].organization = NoOrganization \* None['name']
           THEN Raise(st, "TypeError")
           ELSE
           LET s_package_meta == PackageMetadata(package_name, s_pack[1])
               s_resources == s_pack[1].resources
               t_resources == IF t_pack # <<>> THEN t_pack[1].resources ELSE <<>>
               resources(s) ==
                 sync_package_resources(
                   Note(s, "sync_package_resources", package_name),
                   s_resources, t_resources, package_name)
           IN  IF t_pack = <<>>
               THEN resources(create_package(st, s_package_meta))
               ELSE IF s_package_meta # PackageMetadata(package_name, t_pack[1])
               THEN IF s_package_meta.state = "deleted"
                    THEN purge_package(st, package_name)
                    ELSE resources(patch_package(st, s_package_meta))
               ELSE resources(st)
      ELSE \* package not found in source CKAN
           IF t_pack # <<>> THEN purge_package(st, package_name) ELSE st

\* CkanSync.sync_package, given a package name
sync_package(st, src, package_name) ==
  sync_package_dict(Note(st, "sync_package", package_name), package_name,
                    get_package(src, package_name))

RECURSIVE sync_orgs(_, _, _, _)
sync_orgs(st, src, orgs, i) ==
  IF st.err # "" \/ i > Len(orgs) THEN st
  ELSE sync_orgs(sync_org(Note(st, "sync_org", orgs[i]), src, orgs[i]), src, orgs, i + 1)

RECURSIVE sync_packages(_, _, _, _)
sync_packages(st, src, packages, i) ==
  IF st.err # "" \/ i > Len(packages) THEN st
  ELSE sync_packages(sync_package(st, src, packages[i]), src, packages, i + 1)

\* sync_orgs_and_packages with the two loops exchanged
sync_packages_then_orgs(st, src, orgs, packages) ==
  sync_orgs(sync_packages(st, src, packages, 1), src, orgs, 1)

\* CkanSync.sync_orgs_and_packages
sync_orgs_and_packages(st, src, orgs, packages) ==
  sync_packages(sync_orgs(st, src, orgs, 1), src, packages, 1)

\* sync_full without the purge of the target packages absent from the source
purge_absent_skipped(st, target_packages, source_packages, i) == st

\* sync_full, the loop purging the target packages not in source_packages
RECURSIVE purge_absent(_, _, _, _)
purge_absent(st, target_packages, source_packages, i) ==
  IF st.err # "" \/ i > Len(target_packages) THEN st
  ELSE purge_absent(
         IF target_packages[i] \notin Range(source_packages)
         THEN purge_package(st, target_packages[i])
         ELSE st,
         target_packages, source_packages, i + 1)

\* sync_full, after sync_orgs_and_packages: target_packages is listed and
\* the packages not in source_packages are purged
purge_target_packages(st, source_packages) ==
  IF st.err # "" THEN st
  ELSE purge_absent(st, list_packages(st.target), source_packages, 1)

\* CkanSync.sync_full
sync_full(st, src) ==
  purge_target_packages(
    sync_orgs_and_packages(Note(st, "sync_full", ""), src,
                           list_organizations(src), list_packages(src)),
    list_packages(src))

----------------------------------------------------------------------------
(* Revisions *)

\* the threshold of sync(): more revisions than this, and sync_full runs
RevisionLimit == 200

\* the ids of the revision log are its positions; a watermark of 0 stands
\* for None.  revision_list, sorted by ascending time: the first
\* RevisionPage revisions after the watermark.
revision_list(src, since) ==
  LET n == Len(src.revisions)
      last == IF since + RevisionPage < n THEN since + RevisionPage ELSE n
  IN  [i \in 1..(last - since) |-> since + i]

RECURSIVE collect_more(_, _, _)
collect_more(src, revisions, batch) ==
  IF Len(batch) = 0 THEN revisions
  ELSE collect_more(src, revisions \o batch, revision_list(src, batch[Len(batch)]))

\* CkanApi.collect_revisions: if both parameters are given, the instance
\* uses since_id
collect_revisions(src, since_time, since_id) ==
  collect_more(src, <<>>,
               revision_list(src, IF since_id # 0 THEN since_id ELSE since_time))

\* CkanApi.get_revision
get_revision(src, revid) == src.revisions[revid]

\* collect_changes_from_revisions keeping the changes of the last revision only
collect_changes_from_last_revision(st, src, revision_list_) ==
  [st |-> [st EXCEPT !.log =
             @ \o [i \in 1..Len(revision_list_) |->
                     Event(Call("revision_show", "", revision_list_[i], NoData, None),
                           TRUE)]],
   orgs |-> get_revision(src, revision_list_[Len(revision_list_)]).groups,
   packages |-> get_revision(src, revision_list_[Len(revision_list_)]).packages]

\* CkanApi.collect_changes_from_revisions: one revision_show per revision of
\* the list, and the union of the groups and of the packages they name
collect_changes_from_revisions(st, src, revision_list_) ==
  [st |-> [st EXCEPT !.log =
             @ \o [i \in 1..Len(revision_list_) |->
                     Event(Call("revision_show", "", revision_list_[i], NoData, None),
                           TRUE)]],
   orgs |-> UNION {get_revision(src, revision_list_[i]).groups :
                     i \in 1..Len(revision_list_)},
   packages |-> UNION {get_revision(src, revision_list_[i]).packages :
                         i \in 1..Len(revision_list_)}]

Reverse(s) == [i \in 1..Len(s) |-> s[Len(s) + 1 - i]]

\* the order in which a Python set of names is iterated
Iterate(S, reversed) == IF reversed THEN Reverse(Listed(S)) ELSE Listed(S)

\* len(revisions) > 200 with the comparison including the limit
too_many_from_limit(revisions) == Len(revisions) >= RevisionLimit

\* sync(): len(revisions) > 200
too_many(revisions) == Len(revisions) > RevisionLimit

\* sync_orgs_and_packages(changed_orgs, changed_packages) on the changes
\* collected from the revisions
sync_changes(changes, src, reversed) ==
  sync_orgs_and_packages(changes.st, src,
                         Iterate(changes.orgs, reversed),
                         Iterate(changes.packages, reversed))

\* sync(), once the revisions are collected
sync_revisions(st, src, revisions, reversed) ==
  IF Len(revisions) = 0 THEN st
  ELSE IF too_many(revisions) THEN sync_full(st, src)
  ELSE sync_changes(collect_changes_from_revisions(st, src, revisions), src, reversed)

\* CkanSync.sync
sync(st, src, since_id, since_time, reversed) ==
  IF since_id = 0 /\ since_time = 0 THEN sync_full(st, src)
  ELSE sync_revisions(st, src, collect_revisions(src, since_time, since_id), reversed)

\* last_revid = new_revs[-1] also when the sync raised
iteration_result_always_advances(synced, new_revs, last) ==
  [st |-> synced, last_revid |-> new_revs[Len(new_revs)]]

\* sync_loop: last_revid = new_revs[-1] is reached only if the sync raised
\* nothing
iteration_result(synced, new_revs, last) ==
  [st |-> synced,
   last_revid |-> IF synced.err = "" THEN new_revs[Len(new_revs)] ELSE last]

\* sync_loop, the body of one iteration, once the new revisions are collected
sync_new_revs(st, src, new_revs, last, reversed) ==
  IF Len(new_revs) > 0
  THEN iteration_result(
         sync_changes(collect_changes_from_revisions(st, src, new_revs), src, reversed),
         new_revs, last)
  ELSE [st |-> st, last_revid |-> last]

\* sync_loop, the body of one iteration: the run and the new last_revid
loop_iteration(st, src, last, reversed) ==
  sync_new_revs(st, src, collect_revisions(src, 0, last), last, reversed)

\* collect_changed_packages: limit
PageLimit == 20

DigitChars == <<"0", "1", "2", "3", "4", "5", "6", "7", "8", "9">>

IsDigit(c) == c \in Range(DigitChars)

\* int() of a non-empty string of digits
RECURSIVE int(_, _)
int(digits, acc) ==
  IF digits = <<>> THEN acc
  ELSE int(Tail(digits),
           10 * acc + (CHOOSE d \in 0..9 : DigitChars[d + 1] = Head(digits)))

\* re.split('[^\d]+', timestamp): the runs of digits (for a timestamp
\* that begins and ends with a digit)
RECURSIVE re_split(_, _, _)
re_split(timestamp, token, acc) ==
  IF timestamp = <<>> THEN (IF token = <<>> THEN acc ELSE Append(acc, token))
  ELSE IF IsDigit(Head(timestamp))
  THEN re_split(Tail(timestamp), Append(token, Head(timestamp)), acc)
  ELSE re_split(Tail(timestamp), <<>>, IF token = <<>> THEN acc ELSE Append(acc, token))

\* convert_time, local to collect_changed_packages: the datetime as the
\* tuple of its integer fields
convert_time(timestamp) ==
  LET time_tuple == re_split(timestamp, <<>>, <<>>)
  IN  [i \in 1..Len(time_tuple) |-> int(time_tuple[i], 0)]

\* datetime comparison a > b, field by field
RECURSIVE Later(_, _)
Later(a, b) ==
  IF a = <<>> \/ b = <<>> THEN FALSE
  ELSE IF Head(a) # Head(b) THEN Head(a) > Head(b)
  ELSE Later(Tail(a), Tail(b))

\* filter_changed_packages, local to collect_changed_packages
filter_changed_packages(package_list, since_datetime) ==
  LET changed(pack) == Later(convert_time(pack.metadata_modified), since_datetime)
  IN  SelectSeq(package_list, changed)

\* current_package_list_with_resources with limit and offset: the package
\* dicts, in the order the instance lists them
current_package_list_with_resources(src, limit, offset) ==
  LET last == IF offset + limit < Len(src.listing) THEN offset + limit
              ELSE Len(src.listing)
  IN  [i \in 1..(last - offset) |->
         [name |-> src.listing[offset + i],
          metadata_modified |-> src.pkgs[src.listing[offset + i]].metadata_modified]]

\* collect_changed_packages, the loop: while len(packs) == limit
RECURSIVE collect_pages(_, _, _, _, _)
collect_pages(src, since_datetime, offset, changed_packages, packs) ==
  IF Len(packs) = PageLimit
  THEN collect_pages(
         src, since_datetime, offset + PageLimit, changed_packages \o packs,
         filter_changed_packages(
           current_package_list_with_resources(src, PageLimit, offset + PageLimit),
           since_datetime))
  ELSE changed_packages \o packs

\* CkanApi.collect_changed_packages
collect_changed_packages(src, since_time) ==
  collect_pages(src, convert_time(since_time), 0, <<>>,
                filter_changed_packages(
                  current_package_list_with_resources(src, PageLimit, 0),
                  convert_time(since_time)))

\* sync_packages_only: sync_package for each changed package dict
RECURSIVE sync_changed_packages(_, _, _, _)
sync_changed_packages(st, src, changed_packages, i) ==
  IF st.err # "" \/ i > Len(changed_packages) THEN st
  ELSE sync_changed_packages(
         sync_package_dict(Note(st, "sync_package", changed_packages[i].name),
                           changed_packages[i].name,
                           <<src.pkgs[changed_packages[i].name]>>),
         src, changed_packages, i + 1)

RECURSIVE purge_each(_, _, _)
purge_each(st, to_delete, i) ==
  IF st.err # "" \/ i > Len(to_delete) THEN st
  ELSE purge_each(purge_package(st, to_delete[i]), to_delete, i + 1)

\* sync_packages_only: to_delete, the target packages the source does not
\* list, purged in the order the set is iterated
purge_to_delete(st, src, reversed) ==
  IF st.err # "" THEN st
  ELSE purge_each(st,
                  Iterate(Range(list_packages(st.target)) \ Range(list_packages(src)),
                          reversed),
                  1)

\* CkanSync.sync_packages_only
sync_packages_only(st, src, since_time, reversed) ==
  purge_to_delete(
    sync_changed_packages(st, src, collect_changed_packages(src, since_time), 1),
    src, reversed)

\* CkanApi.empty_trash: the instance purges its deleted datasets
empty_trash(cat) ==
  [cat EXCEPT !.pkgs =
     Restrict(cat.pkgs, {n \in DOMAIN cat.pkgs : cat.pkgs[n].state # "deleted"})]

----------------------------------------------------------------------------
(* Inputs *)

\* the sequences over S of length at most n
SeqsUpTo(S, n) == UNION {[1..k -> S] : k \in 0..n}

DistinctIds(s) == \A i, j \in 1..Len(s) : i # j => s[i].id # s[j].id

SourceRes(id, rev, lm, url_type) ==
  [id |-> id, revision_id |-> rev, last_modified |-> lm, url_type |-> url_type,
   url |-> Str("f"), hash |-> <<>>]

\* source resources as package_show returns them; the ids are the source's
\* primary keys, the empty id stands for a record without one
SourceResources ==
  {SourceRes(Str("A"), Str("1"), <<"T", ":", "1">>, "link"),
   SourceRes(Str("A"), Str("2"), <<"T", ":", "1">>, "upload"),
   SourceRes(Str("C"), Str("1"), None, "upload"),
   SourceRes(Str("B"), Str("2"), None, "link"),
   SourceRes(<<>>, Str("1"), None, "link")}

SourceResLists ==
  {s \in SeqsUpTo(SourceResources, MaxSrcRes) : DistinctIds(s)}

\* hash fields found on target resources: absent, empty, without ':',
\* with an empty id, and markers
TargetHashes ==
  {None, <<>>, Str("x"), <<":", "1">>, <<"A", ":", "1">>, <<"B", ":", "2">>,
   <<"A", ":", "T", ":", "1">>}

\* a target resource list: the i-th resource has target id i
TargetResLists ==
  {[i \in 1..Len(h) |-> [id |-> i, hash |-> h[i]]] :
     h \in SeqsUpTo(TargetHashes, MaxTgtRes)}

FailKinds == {"status", "success"}

\* where a run may be failed: never (0), or at its k-th write call
NoFailure == [failAt |-> 0, failKind |-> "status"]

FailChoices ==
  {NoFailure}
    \cup {[failAt |-> k, failKind |-> kind] : k \in 1..MaxFail, kind \in FailKinds}

EmptySource == [orgs |-> <<>>, pkgs |-> <<>>, revisions |-> <<>>]

DefaultOrg == [title |-> Str("o"), extras |-> <<>>, image_display_url |-> <<>>]

\* a target holding one package with the given resources
TargetWith(name, reslist) ==
  [orgs |-> [o \in {"o1"} |-> DefaultOrg],
   pkgs |-> [p \in {name} |->
               [title |-> Str("t"), state |-> "active", organization |-> "o1",
                extras |-> <<>>, resources |-> reslist]],
   nextId |-> Len(reslist) + 1]

----------------------------------------------------------------------------
(* SpecRes: sync_package_resources on a source list and the target list of  *)
(* one package                                                              *)

InitRes ==
  /\ source = EmptySource
  /\ \E sl \in SourceResLists, tl \in TargetResLists :
       /\ args = [source_reslist |-> sl, target_reslist |-> tl,
                  package_name |-> "p1"]
       /\ target = TargetWith("p1", tl)
  /\ files = {}
  /\ log = <<>>
  /\ err = ""
  /\ pc = "call"
  /\ runs = <<>>
  /\ last_revid = 0
  /\ exit = 0

Finish(st, op, fail) ==
  /\ target' = st.target
  /\ files' = st.files
  /\ log' = st.log
  /\ err' = st.err
  /\ runs' = Append(runs, [op |-> op, err |-> st.err, failAt |-> fail.failAt,
                           writes |-> st.nwrites, pre |-> target,
                           failedWrite |-> \E i \in 1..Len(st.log) : ~st.log[i].ok])

SyncPackageResources ==
  /\ pc = "call"
  /\ \E fail \in FailChoices :
       \E st \in {sync_package_resources(
                   NewRun(target, files, fail.failAt, fail.failKind),
                   args.source_reslist, args.target_reslist, args.package_name)} :
           /\ fail.failAt <= st.nwrites
           /\ Finish(st, "sync_package_resources", fail)
  /\ pc' = "done"
  /\ UNCHANGED <<source, args, last_revid, exit>>

NextRes == SyncPackageResources

SpecRes == InitRes /\ [][NextRes]_vars

----------------------------------------------------------------------------
(* What a finished call of sync_package_resources did *)

\* the source id embedded in a target resource's marker (empty: none)
Oid(t_res) == parse_hash(t_res.hash).original_id

Orev(t_res) == parse_hash(t_res.hash).original_revision

\* the non-empty embedded ids of a target list are pairwise distinct
DistinctOids(tl) ==
  \A i, j \in 1..Len(tl) :
    (i # j /\ Oid(tl[i]) # <<>>) => Oid(tl[i]) # Oid(tl[j])

\* target resources whose marker embeds the id of s
Matches(tl, s) == {t \in Range(tl) : Oid(t) # <<>> /\ Oid(t) = s.id}

\* the number of resource_create calls in the log that carry s's marker
Creates(s) ==
  Cardinality({i \in 1..Len(log) :
     log[i].op = "resource_create" /\ log[i].data.hash = create_hash(s)})

Updates(s) ==
  Cardinality({i \in 1..Len(log) :
     log[i].op = "resource_update" /\ log[i].data.hash = create_hash(s)})

UpdatesOf(s, rid) ==
  Cardinality({i \in 1..Len(log) :
     /\ log[i].op = "resource_update"
     /\ log[i].data.hash = create_hash(s)
     /\ log[i].rid = rid})

Deletes(rid) ==
  Cardinality({i \in 1..Len(log) :
     log[i].op = "resource_delete" /\ log[i].rid = rid})

\* the write calls of the log, in order
WriteLog == SelectSeq(log, IsWrite)

ResDone == pc = "done" /\ err = ""

\* C1: after sync_package_resources on a source list (distinct ids) and a
\* target list whose non-empty embedded source ids are distinct, a source
\* resource whose id no target marker embeds got exactly one resource_create
\* and no update; one whose id a marker embeds with the revision equal to its
\* revision_id or last_modified got no write (and its target no delete); one
\* whose id a marker embeds with another revision got exactly one
\* resource_update, addressed to the matched target id, and no create; and
\* every target resource whose embedded id is empty or is the id of no source
\* resource got exactly one resource_delete.
C1_ResourceDecisions ==
  (ResDone /\ DistinctOids(args.target_reslist)) =>
    LET sl == args.source_reslist
        tl == args.target_reslist
    IN  /\ \A s \in Range(sl) :
             IF Matches(tl, s) = {}
             THEN Creates(s) = 1 /\ Updates(s) = 0
             ELSE \A t \in Matches(tl, s) :
                    IF Orev(t) \in {s.revision_id, s.last_modified}
                    THEN Creates(s) = 0 /\ Updates(s) = 0 /\ Deletes(t.id) = 0
                    ELSE /\ Creates(s) = 0
                         /\ Updates(s) = 1
                         /\ UpdatesOf(s, t.id) = 1
                         /\ Deletes(t.id) = 0
        /\ \A t \in Range(tl) :
             (Oid(t) = <<>> \/ \A s \in Range(sl) : s.id # Oid(t))
               => Deletes(t.id) = 1

\* markers A:1, B:2 against source A rev 1 and C rev 1: A no-op, B delete,
\* C create
C1_Witness ==
  /\ ResDone
  /\ [i \in 1..Len(args.target_reslist) |-> args.target_reslist[i].hash]
       = << <<"A", ":", "1">>, <<"B", ":", "2">> >>
  /\ [i \in 1..Len(args.source_reslist) |-> args.source_reslist[i].id]
       = <<Str("A"), Str("C")>>
  /\ args.source_reslist[1].revision_id = Str("1")
  /\ Len(WriteLog) = 2
  /\ WriteLog[1].op = "resource_create" /\ WriteLog[1].data.hash = <<"C", ":", "1">>
  /\ WriteLog[2].op = "resource_delete" /\ WriteLog[2].rid = 2

\* C6: sync_package_resources deletes every target resource whose marker
\* field is the empty string, whatever the source list holds; a source
\* resource with an empty id is not matched to it (it is created, and no
\* update is addressed to that target resource).
C6_EmptyMarkerDeleted ==
  ResDone =>
    \A t \in Range(args.target_reslist) :
      t.hash = <<>> =>
        /\ Deletes(t.id) = 1
        /\ \A i \in 1..Len(log) :
             log[i].op = "resource_update" => log[i].rid # t.id
        /\ \A s \in Range(args.source_reslist) : s.id = <<>> => Creates(s) = 1

\* a target resource with an empty marker beside a source resource with an
\* empty id: the first deleted, the second created
C6_Witness ==
  /\ ResDone
  /\ \E t \in Range(args.target_reslist) : t.hash = <<>> /\ Deletes(t.id) = 1
  /\ \E s \in Range(args.source_reslist) : s.id = <<>> /\ Creates(s) = 1

\* C7: once sync_package_resources has exited, normally or by an error, no
\* file it downloaded to the scratch directory remains.
C7_NoTemporaryFileRemains ==
  pc = "done" => files = {}

----------------------------------------------------------------------------
(* Catalogs *)

Pkg(title, state, extras, resources) ==
  [title |-> title, state |-> state, organization |-> "o1",
   extras |-> extras, resources |-> resources]

ExtrasAB == <<[key |-> "a", value |-> "x"], [key |-> "b", value |-> "y"]>>

ExtrasBA == <<[key |-> "b", value |-> "y"], [key |-> "a", value |-> "x"]>>

Org(title, image_url) ==
  [title |-> title, extras |-> <<>>, image_display_url |-> image_url]

\* image of an organization on the source, and the same image as stored by
\* the target after an upload
SourceImage == <<"/", "i">>

UploadedImage == <<"/", "TS", "i">>

\* target resource lists of a package, with target ids from base + 1 on
ResListsFrom(hashes, n, base) ==
  {[i \in 1..Len(h) |-> [id |-> base + i, hash |-> h[i]]] : h \in SeqsUpTo(hashes, n)}

TargetOf(orgs, pkgs, nextId) == [orgs |-> orgs, pkgs |-> pkgs, nextId |-> nextId]

\* the functions from a subset of S to T
PartialFns(S, T) == UNION {[D -> T] : D \in SUBSET S}

----------------------------------------------------------------------------
(* SpecPkg: sync_package on the name of one package                         *)

SourcePkgs1 ==
  {Pkg(title, state, ExtrasBA, rl) :
     title \in {Str("t"), <<" ", "t">>},
     state \in {"active", "deleted"},
     rl \in {s \in SourceResLists : Len(s) <= 1}}

TargetPkgs1 ==
  {Pkg(title, state, ExtrasAB, rl) :
     title \in {Str("t"), Str("u")},
     state \in {"active", "deleted"},
     rl \in ResListsFrom({<<>>, <<"A", ":", "1">>, <<"B", ":", "2">>}, MaxTgtRes, 0)}

InitPkg ==
  /\ \E sp \in PartialFns({"p1"}, SourcePkgs1) :
       source = [orgs |-> [o \in {"o1"} |-> Org(Str("o"), SourceImage)],
                 pkgs |-> sp, revisions |-> <<>>]
  /\ \E tp \in PartialFns({"p1"}, TargetPkgs1) :
       target = TargetOf([o \in {"o1"} |-> Org(Str("o"), UploadedImage)], tp,
                         MaxTgtRes + 1)
  /\ args = [package_name |-> "p1"]
  /\ files = {}
  /\ log = <<>>
  /\ err = ""
  /\ pc = "call"
  /\ runs = <<>>
  /\ last_revid = 0
  /\ exit = 0

SyncPackage ==
  /\ Len(runs) < MaxRuns
  /\ \E fail \in FailChoices :
       \E st \in {sync_package(NewRun(target, files, fail.failAt, fail.failKind),
                              source, args.package_name)} :
           /\ fail.failAt <= st.nwrites
           /\ Finish(st, "sync_package", fail)
  /\ pc' = "done"
  /\ UNCHANGED <<source, args, last_revid, exit>>

NextPkg == SyncPackage

SpecPkg == InitPkg /\ [][NextPkg]_vars

\* the last call ran to its end without an exception
Completed == pc = "done" /\ err = ""

Noted(op, name) == \E i \in 1..Len(log) : log[i].op = op /\ log[i].name = name

Wrote(op, name) ==
  \E i \in 1..Len(log) : log[i].op = op /\ log[i].name = name /\ log[i].ok

ResourceOps == {"resource_create", "resource_update", "resource_delete"}

\* the target as the last call found it
Before == runs[Len(runs)].pre

\* C4: sync_package on a package whose source copy has state 'deleted' and
\* that exists in the target purges the target package and does not run
\* sync_package_resources (no resource call is issued).
C4_DeletedSourcePurges ==
  (/\ Completed
   /\ "p1" \in DOMAIN source.pkgs
   /\ source.pkgs["p1"].state = "deleted"
   /\ "p1" \in DOMAIN Before.pkgs)
    => /\ Wrote("dataset_purge", "p1")
       /\ "p1" \notin DOMAIN target.pkgs
       /\ ~Noted("sync_package_resources", "p1")
       /\ \A i \in 1..Len(log) : log[i].op \notin ResourceOps

----------------------------------------------------------------------------
(* SpecFull: sync_full, run again after it returned or failed               *)

\* resource lists of a source package: ids A and B, in the order of the ids
SourceResListsF ==
  {s \in SourceResLists :
     /\ \A i \in 1..Len(s) : s[i].id \in {Str("A"), Str("B")}
     /\ \A i \in 1..Len(s) : i > 1 => s[i].id = Str("B")}

SourceP1 == {Pkg(<<" ", "t">>, "active", ExtrasBA, rl) : rl \in SourceResListsF}

SourceP2 == {Pkg(Str("t"), "active", <<>>, <<>>)}

TargetHashesF == {<<>>, <<"A", ":", "1">>, <<"A", ":", "T", ":", "1">>}

TargetP1 ==
  {Pkg(title, "active", ExtrasAB, rl) :
     title \in {Str("t"), Str("u")},
     rl \in ResListsFrom(TargetHashesF, MaxTgtRes, 0)}

TargetP2 == {Pkg(Str("t"), "active", <<>>, <<>>)}

TargetP3 == {Pkg(Str("t"), state, <<>>, <<>>) : state \in {"active", "deleted"}}

InitFull ==
  /\ \E s1 \in PartialFns({"p1"}, SourceP1), s2 \in PartialFns({"p2"}, SourceP2) :
       source = [orgs |-> [o \in {"o1"} |-> Org(Str("o"), SourceImage)],
                 pkgs |-> [n \in DOMAIN s1 \cup DOMAIN s2 |->
                             IF n \in DOMAIN s1 THEN s1[n] ELSE s2[n]],
                 revisions |-> <<>>]
  /\ \E to \in PartialFns({"o1"}, {Org(Str("o"), UploadedImage), Org(Str("q"), <<>>)}),
        t1 \in PartialFns({"p1"}, TargetP1),
        t2 \in PartialFns({"p2"}, TargetP2),
        t3 \in PartialFns({"p3"}, TargetP3) :
       /\ (DOMAIN t1 \cup DOMAIN t2 \cup DOMAIN t3 # {}) => DOMAIN to # {}
       /\ target = TargetOf(to,
                     [n \in DOMAIN t1 \cup DOMAIN t2 \cup DOMAIN t3 |->
                        IF n \in DOMAIN t1 THEN t1[n]
                        ELSE IF n \in DOMAIN t2 THEN t2[n] ELSE t3[n]],
                     MaxTgtRes + 1)
  /\ args = [package_name |-> ""]
  /\ files = {}
  /\ log = <<>>
  /\ err = ""
  /\ pc = "call"
  /\ runs = <<>>
  /\ last_revid = 0
  /\ exit = 0

\* a failure is injected into the first pass only
FailChoicesFull == IF runs = <<>> THEN FailChoices ELSE {NoFailure}

SyncFull ==
  /\ Len(runs) < MaxRuns
  /\ \E fail \in FailChoicesFull :
       \E st \in {sync_full(NewRun(target, files, fail.failAt, fail.failKind), source)} :
           /\ fail.failAt <= st.nwrites
           /\ Finish(st, "sync_full", fail)
  /\ pc' = "done"
  /\ UNCHANGED <<source, args, last_revid, exit>>

NextFull == SyncFull

SpecFull == InitFull /\ [][NextFull]_vars

\* C2: when sync_full has completed without error and is run again on the
\* unchanged source, the second run issues no write call to the target.
C2_SecondRunWritesNothing ==
  (Len(runs) = 2 /\ runs[1].err = "") => runs[2].writes = 0

\* the target resources tl correspond one-to-one to the source resources sl,
\* each carrying the marker '<source id>:<source revision_id>'
OneToOne(sl, tl) ==
  /\ Len(tl) = Len(sl)
  /\ \A s \in Range(sl) :
       Cardinality({i \in 1..Len(tl) : tl[i].hash = create_hash(s)}) = 1

\* C3: after sync_full completed without error, the target holds every
\* package of the source package list under its name with canonical metadata
\* equal to the source's, and its resources correspond one-to-one to the
\* source package's resources.
C3_TargetMatchesSource ==
  Completed =>
    \A n \in Range(list_packages(source)) :
      /\ n \in DOMAIN target.pkgs
      /\ PackageMetadata(n, target.pkgs[n]) = PackageMetadata(n, source.pkgs[n])
      /\ OneToOne(source.pkgs[n].resources, target.pkgs[n].resources)

\* C8: when sync_full completes without error, the packages the target
\* lists are among the source package names read during the pass.
C8_TargetPackagesWithinSource ==
  Completed => Range(list_packages(target)) \subseteq Range(list_packages(source))

\* a pass that purged a target package absent from the source
C8_Witness ==
  /\ Completed
  /\ "p3" \in Range(list_packages(Before))
  /\ Wrote("dataset_purge", "p3")
  /\ "p3" \notin DOMAIN target.pkgs

\* how often each marker occurs in a resource list
ResBag(rl) ==
  [h \in {rl[i].hash : i \in 1..Len(rl)} |->
     Cardinality({i \in 1..Len(rl) : rl[i].hash = h})]

\* the target up to the ids it assigned: organizations, packages, canonical
\* metadata and the markers of the resources
View(tgt) ==
  [orgs |-> [o \in DOMAIN tgt.orgs |->
               [org |-> Organization(o, tgt.orgs[o]),
                image |-> image_name(tgt.orgs[o].image_display_url)]],
   pkgs |-> [n \in DOMAIN tgt.pkgs |->
               [meta |-> PackageMetadata(n, tgt.pkgs[n]),
                resources |-> ResBag(tgt.pkgs[n].resources)]]]

\* one uninterrupted sync_full from the target tgt
Uninterrupted(tgt) == sync_full(NewRun(tgt, {}, 0, "status"), source)

\* C9: when a pass was aborted by a failed write call and the following
\* sync_full completes without error, the target is in the state one
\* uninterrupted successful sync_full from the original target would have
\* left.
C9_RetryReachesSameState ==
  (/\ Len(runs) = 2
   /\ runs[1].failAt > 0
   /\ runs[1].err # ""
   /\ runs[2].err = ""
   /\ Uninterrupted(runs[1].pre).err = "")
    => View(target) = View(Uninterrupted(runs[1].pre).target)

----------------------------------------------------------------------------
(* Spec: main(), one-shot or in loop mode                                   *)

ChangeRecord(groups, packages) == [groups |-> groups, packages |-> packages]

\* change records repeated along a revision log
ChangePatterns ==
  {<<ChangeRecord({"o1"}, {})>>,
   <<ChangeRecord({}, {"p1"})>>,
   <<ChangeRecord({"o1"}, {"p1"}), ChangeRecord({}, {"p2"})>>}

\* a revision log of n entries
RevisionLog(pattern, n) == [i \in 1..n |-> pattern[((i - 1) % Len(pattern)) + 1]]

\* the numbers of revisions after the first one: few, and around the limit
RevisionLogs ==
  {RevisionLog(pattern, n + 1) : pattern \in ChangePatterns, n \in 0..2}
    \cup {RevisionLog(<<ChangeRecord({"o1"}, {"p1"})>>, n + 1) :
            n \in {RevisionLimit, RevisionLimit + 1, RevisionLimit + 50}}
    \cup {<<>>}

SourceP1Main ==
  {Pkg(Str("t"), "active", <<>>, <<SourceRes(Str("A"), Str("1"), None, "upload")>>),
   Pkg(Str("t"), "deleted", <<>>, <<>>)}

TargetP1Main ==
  {Pkg(Str("u"), "active", <<>>, <<[id |-> 1, hash |-> <<"A", ":", "1">>]>>),
   Pkg(Str("t"), "active", <<>>, <<>>)}

InitMain ==
  /\ \E s1 \in PartialFns({"p1"}, SourceP1Main), s2 \in PartialFns({"p2"}, SourceP2),
        revisions \in RevisionLogs :
       source = [orgs |-> [o \in {"o1"} |-> Org(Str("o"), SourceImage)],
                 pkgs |-> [n \in DOMAIN s1 \cup DOMAIN s2 |->
                             IF n \in DOMAIN s1 THEN s1[n] ELSE s2[n]],
                 revisions |-> revisions]
  /\ \E to \in PartialFns({"o1", "o2"},
                            {Org(Str("o"), UploadedImage), Org(Str("q"), <<>>)}),
        t1 \in PartialFns({"p1"}, TargetP1Main),
        t3 \in PartialFns({"p3"}, TargetP3) :
       /\ (DOMAIN t1 \cup DOMAIN t3 # {}) => "o1" \in DOMAIN to
       /\ "o2" \in DOMAIN to => to["o2"] = Org(Str("o"), UploadedImage)
       /\ (DOMAIN to = {"o1"} /\ DOMAIN t3 = {}) \/ \A o \in DOMAIN to : to[o].title = Str("o")
       /\ target = TargetOf(to,
                     [n \in DOMAIN t1 \cup DOMAIN t3 |->
                        IF n \in DOMAIN t1 THEN t1[n] ELSE t3[n]],
                     MaxTgtRes + 1)
  /\ \E loop \in BOOLEAN, since_id \in {0, 1}, since_time \in {0, 1} :
       args = [loop |-> loop, since_id |-> since_id, since_time |-> since_time]
  /\ files = {}
  /\ log = <<>>
  /\ err = ""
  /\ pc = "main"
  /\ runs = <<>>
  /\ last_revid = 0
  /\ exit = 0

\* main() without --loop: the trash of both instances is emptied, sync()
\* runs, and an exception it raises ends the process with status 1
OneShot ==
  /\ pc = "main"
  /\ ~args.loop
  /\ source' = empty_trash(source)
  /\ \E fail \in FailChoices, reversed \in BOOLEAN :
       \E st \in {sync(NewRun(empty_trash(target), files, fail.failAt, fail.failKind),
                      source', args.since_id, args.since_time, reversed)} :
           /\ fail.failAt <= st.nwrites
           /\ Finish(st, "sync", fail)
           /\ exit' = IF st.err = "" THEN 0 ELSE 1
  /\ pc' = "exited"
  /\ UNCHANGED <<args, last_revid>>

\* main() with --loop, up to the first pass of sync_loop: without since_id
\* the latest revision id is read (result[0] of an empty log: IndexError)
LoopStart ==
  /\ pc = "main"
  /\ args.loop
  /\ source' = empty_trash(source)
  /\ target' = empty_trash(target)
  /\ IF args.since_id # 0
     THEN last_revid' = args.since_id /\ pc' = "loop_iter" /\ UNCHANGED <<err, exit>>
     ELSE IF Len(source.revisions) = 0
     THEN pc' = "exited" /\ err' = "IndexError" /\ exit' = 1 /\ UNCHANGED last_revid
     ELSE /\ last_revid' = Len(source.revisions)
          /\ pc' = "loop_full"
          /\ UNCHANGED <<err, exit>>
  /\ UNCHANGED <<files, log, args, runs>>

\* sync_loop: the full sync before the loop, outside its try
LoopFullSync ==
  /\ pc = "loop_full"
  /\ \E fail \in FailChoices :
       \E st \in {sync_full(NewRun(target, files, fail.failAt, fail.failKind), source)} :
           /\ fail.failAt <= st.nwrites
           /\ Finish(st, "sync_full", fail)
           /\ IF st.err = ""
              THEN pc' = "loop_iter" /\ UNCHANGED exit
              ELSE pc' = "exited" /\ exit' = 1
  /\ UNCHANGED <<source, args, last_revid>>

\* sync_loop: one iteration; any exception is logged and ends the process
\* with sys.exit(1)
LoopIteration ==
  /\ pc = "loop_iter"
  /\ Len(runs) < MaxRuns
  /\ \E fail \in FailChoices, reversed \in BOOLEAN :
       \E it \in {loop_iteration(NewRun(target, files, fail.failAt, fail.failKind),
                                source, last_revid, reversed)} :
           /\ fail.failAt <= it.st.nwrites
           /\ Finish(it.st, "loop", fail)
           /\ last_revid' = it.last_revid
           /\ IF it.st.err = ""
              THEN pc' = "loop_iter" /\ UNCHANGED exit
              ELSE pc' = "exited" /\ exit' = 1
  /\ UNCHANGED <<source, args>>

\* the source records a revision while sync_loop runs: sync_loop reads the
\* log of the source anew in every iteration
SourceRevision ==
  /\ pc \in {"loop_full", "loop_iter"}
  /\ Len(runs) < MaxRuns
  /\ Len(source.revisions) < MaxRevisions
  /\ source' = [source EXCEPT !.revisions = Append(@, ChangeRecord({"o1"}, {"p1"}))]
  /\ UNCHANGED <<target, files, log, err, pc, args, runs, last_revid, exit>>

Next == OneShot \/ LoopStart \/ LoopFullSync \/ LoopIteration \/ SourceRevision

Spec == InitMain /\ [][Next]_vars

\* the watermark of a one-shot run, 0 when none is given
Since == IF args.since_id # 0 THEN args.since_id ELSE args.since_time

\* the number of revisions the log holds since the watermark
NSince == Len(source.revisions) - Since

Shows == Cardinality({i \in 1..Len(log) : log[i].op = "revision_show"})

\* C5: in one-shot sync() with a watermark, a log of more than 200
\* revisions since the watermark makes sync_full run with no revision_show,
\* and one of 1 to 200 revisions makes every revision be inspected and
\* sync_full not run.
C5_ThresholdChoosesPath ==
  (pc = "exited" /\ ~args.loop /\ Since # 0) =>
    /\ NSince > RevisionLimit => (Noted("sync_full", "") /\ Shows = 0)
    /\ NSince \in 1..RevisionLimit => (~Noted("sync_full", "") /\ Shows = NSince)

\* 250 revisions since the watermark: the full-sync path
C5_Witness ==
  /\ pc = "exited" /\ ~args.loop /\ Since # 0
  /\ NSince = RevisionLimit + 50
  /\ Noted("sync_full", "")
  /\ Shows = 0

\* C10: a write call answered with an error status or with success false is
\* the last call of its pass and leaves an exception; the pass it aborted is
\* the last pass of the process, which has ended with exit status 1.
C10_FailedWriteAborts ==
  /\ \A i \in 1..Len(log) : ~log[i].ok => (i = Len(log) /\ err # "")
  /\ \A i \in 1..Len(runs) :
       runs[i].failedWrite =>
         (runs[i].err # "" /\ i = Len(runs) /\ pc = "exited" /\ exit = 1)

\* a loop iteration whose second write call failed
C10_Witness ==
  /\ args.loop
  /\ pc = "exited" /\ exit = 1
  /\ runs # <<>> /\ runs[Len(runs)].op = "loop"
  /\ runs[Len(runs)].failedWrite /\ runs[Len(runs)].failAt = 2
  /\ Len(WriteLog) = 2 /\ WriteLog[1].ok /\ ~WriteLog[2].ok

----------------------------------------------------------------------------
(* The exit status of a one-shot run *)

\* a write call of the pass that the target applied
Applied(i) == IsWrite(log[i]) /\ log[i].ok

\* C11: a one-shot run (main calling sync()) ends with a nonzero exit status
\* if a change was applied to the target or an error occurred, and with
\* status zero only when the pass made no change and met no error.
C11_ExitStatusReflectsChanges ==
  (pc = "exited" /\ ~args.loop) =>
    (exit = 0 <=> (err = "" /\ \A i \in 1..Len(log) : ~Applied(i)))

----------------------------------------------------------------------------
(* Organizations in the target *)

\* C12: no step of the program (the one-shot sync, the full sync before the
\* loop, a loop iteration) removes an organization from the target, whether
\* or not the source has it, and a pass issues an organization_create only
\* for a name the target did not hold.
C12_OrganizationsNeverDeleted ==
  [][/\ DOMAIN target.orgs \subseteq DOMAIN target'.orgs
     /\ runs' # runs =>
          \A i \in 1..Len(log') :
            log'[i].op = "organization_create" => log'[i].name \notin DOMAIN target.orgs]_vars

\* a pass that created an organization and left alone one the source lacks
C12_Witness ==
  /\ Len(runs) > 0
  /\ err = ""
  /\ "o2" \in DOMAIN target.orgs
  /\ "o2" \notin DOMAIN source.orgs
  /\ Wrote("organization_create", "o1")

----------------------------------------------------------------------------
(* The order of the calls of a pass *)

\* the number of the sync_package_resources call that log entry i falls in
Segment(i) ==
  Cardinality({k \in 1..i : log[k].op = "sync_package_resources"})

\* C13: in the log of a sync_full, every resource_delete follows every
\* resource_create and resource_update of the same sync_package_resources
\* call, and every purge of a target package that the source does not list
\* follows every package_create and package_patch of the pass.
C13_DeletionsAfterCreatesAndUpdates ==
  /\ \A i, j \in 1..Len(log) :
       (/\ log[i].op = "resource_delete"
        /\ log[j].op \in {"resource_create", "resource_update"}
        /\ Segment(i) = Segment(j)) => j < i
  /\ \A i, j \in 1..Len(log) :
       (/\ log[i].op = "dataset_purge"
        /\ log[i].name \notin Range(list_packages(source))
        /\ log[j].op \in {"package_create", "package_patch"}) => j < i

OrganizationOps == {"organization_create", "organization_patch"}

PackageOps == {"package_create", "package_patch", "dataset_purge"}

\* the package whose sync_package call log entry j falls in
PackageOf(j) ==
  LET calls == {k \in 1..j : log[k].op = "sync_package"}
  IN  IF calls = {} THEN ""
      ELSE log[CHOOSE k \in calls : \A m \in calls : m <= k].name

\* C14: in the log of every pass of main() (the full sync, the incremental
\* sync, a loop iteration) every organization write precedes every package
\* write and every resource write, and the create or patch of a package
\* precedes every write on the resources of that package.
C14_DependencyOrder ==
  /\ \A i, j \in 1..Len(log) :
       (/\ log[i].op \in OrganizationOps
        /\ log[j].op \in PackageOps \cup ResourceOps) => i < j
  /\ \A i, j \in 1..Len(log) :
       (/\ log[i].op \in {"package_create", "package_patch"}
        /\ log[j].op \in ResourceOps
        /\ PackageOf(j) = log[i].name) => i < j

\* a pass that wrote an organization, then a package, then a resource of it
C14_Witness ==
  /\ err = ""
  /\ \E i, j, k \in 1..Len(log) :
       /\ i < j /\ j < k
       /\ log[i].op \in OrganizationOps
       /\ log[j].op \in {"package_create", "package_patch"}
       /\ log[k].op \in ResourceOps
       /\ PackageOf(k) = log[j].name

----------------------------------------------------------------------------
(* sync_package: the resources, and a package absent from the source *)

\* the write calls of the log, applied or not
Issued == {i \in 1..Len(log) : IsWrite(log[i])}

\* C15: when sync_package returns without an error for a package that the
\* source holds and that was not purged for state 'deleted',
\* sync_package_resources has run with the source's resource list: after a
\* package_create, after a package_patch, and with no package write at all.
C15_ResourcesAlwaysReconciled ==
  (/\ Completed
   /\ "p1" \in DOMAIN source.pkgs
   /\ ~Wrote("dataset_purge", "p1"))
    => /\ Noted("sync_package_resources", "p1")
       /\ \A s \in Range(source.pkgs["p1"].resources) :
            \E t \in Range(target.pkgs["p1"].resources) : Oid(t) = s.id

\* equal canonical metadata, no package write, and a resource created
C15_Witness ==
  /\ Completed
  /\ "p1" \in DOMAIN source.pkgs
  /\ \A i \in Issued : log[i].op \in ResourceOps
  /\ \E i \in Issued : log[i].op = "resource_create" /\ log[i].ok

\* C16: sync_package on a package name the source lacks issues exactly one
\* write call, the purge of the package, if the target has it, and no write
\* call at all if the target lacks it.
C16_AbsentFromSource ==
  (pc = "done" /\ "p1" \notin DOMAIN source.pkgs) =>
    IF "p1" \in DOMAIN Before.pkgs
    THEN /\ Cardinality(Issued) = 1
         /\ \A i \in Issued : log[i].op = "dataset_purge" /\ log[i].name = "p1"
    ELSE Issued = {}

\* the package was in the target, and the one call purged it
C16_Witness ==
  /\ Completed
  /\ "p1" \notin DOMAIN source.pkgs
  /\ "p1" \in DOMAIN Before.pkgs
  /\ "p1" \notin DOMAIN target.pkgs
  /\ Wrote("dataset_purge", "p1")

----------------------------------------------------------------------------
(* The incremental path of sync() *)

\* the organizations and packages named in the change records of the
\* revisions since the watermark
AffectedOrgs ==
  UNION {source.revisions[i].groups : i \in (Since + 1)..Len(source.revisions)}

AffectedPackages ==
  UNION {source.revisions[i].packages : i \in (Since + 1)..Len(source.revisions)}

\* the number of times a method of CkanSync was entered for a name
Entered(op, name) ==
  Cardinality({i \in 1..Len(log) : log[i].op = op /\ log[i].name = name})

\* the target as sync() found it, the trash emptied
Found == empty_trash(Before)

\* the entries of f for the names outside S
Outside(f, S) == Restrict(f, DOMAIN f \ S)

\* C17: in one-shot sync() with 1 to 200 revisions since the watermark,
\* the organizations, packages and resources of the target that the
\* revisions do not name are left as they were; when the pass completes,
\* sync_org has run once for each organization and sync_package once for
\* each package the revisions name and for no other, and a named package
\* that the source no longer holds is gone from the target.  With no
\* revision since the watermark no call is issued.
C17_ExactlyAffectedReconciled ==
  (pc = "exited" /\ ~args.loop /\ Since # 0 /\ NSince <= RevisionLimit) =>
    /\ NSince <= 0 => (log = <<>> /\ err = "" /\ target = Found)
    /\ NSince >= 1 =>
         /\ Outside(target.orgs, AffectedOrgs) = Outside(Found.orgs, AffectedOrgs)
         /\ Outside(target.pkgs, AffectedPackages) = Outside(Found.pkgs, AffectedPackages)
         /\ err = "" =>
              /\ \A o \in Range(NameOrder) :
                   Entered("sync_org", o) = IF o \in AffectedOrgs THEN 1 ELSE 0
              /\ \A n \in Range(NameOrder) :
                   Entered("sync_package", n) = IF n \in AffectedPackages THEN 1 ELSE 0
              /\ \A n \in AffectedPackages :
                   n \notin DOMAIN source.pkgs => n \notin DOMAIN target.pkgs

\* two revisions naming p1 and p2: p1 purged, and p3, which no revision
\* names and the source lacks, still in the target
C17_Witness ==
  /\ pc = "exited" /\ ~args.loop /\ Since # 0 /\ err = ""
  /\ NSince = 2
  /\ AffectedPackages = {"p1", "p2"}
  /\ "p1" \in DOMAIN Found.pkgs /\ "p1" \notin DOMAIN target.pkgs
  /\ "p3" \in DOMAIN target.pkgs /\ "p3" \notin DOMAIN source.pkgs

----------------------------------------------------------------------------
(* The threshold in the polling loop *)

\* C18: when the first iteration of sync_loop, started with --since-id,
\* collects more than 200 revisions since the watermark, it runs sync_full
\* and inspects no revision.
C18_LoopIterationFallsBack ==
  (/\ args.loop /\ args.since_id # 0
   /\ Len(runs) = 1 /\ runs[1].op = "loop"
   /\ NSince > RevisionLimit)
    => (Noted("sync_full", "") /\ Shows = 0)

----------------------------------------------------------------------------
(* Malformed markers *)

\* a marker field that is absent or null, empty, or without a separator
Malformed(hash) == hash = None \/ IndexOf(hash, ":") = 0

\* C19: a malformed marker on a target resource is not an error: parsing it
\* raises nothing, and unless a call to the target fails,
\* sync_package_resources completes with that resource deleted.
C19_MalformedMarkerDeleted ==
  pc = "done" =>
    /\ \A t \in Range(args.target_reslist) :
         Malformed(t.hash) =>
           /\ parse_hash(t.hash) =
                [raised |-> "", original_id |-> <<>>, original_revision |-> <<>>]
           /\ err = "" => Deletes(t.id) = 1
    /\ err \notin {"AttributeError", "ValueError"}

----------------------------------------------------------------------------
(* SpecChanged: sync_packages_only on a source that lists up to MaxPackages *)
(* packages, changed or not since since_time                                *)

OldTime == <<"1", "-", "1", "-", "1">>

SinceTime == <<"1", "-", "1", "-", "2">>

NewTime == <<"1", "-", "1", "-", "1", "0">>

ListedPkg(metadata_modified) ==
  [title |-> Str("t"), state |-> "active", organization |-> "o1",
   extras |-> <<>>, resources |-> <<>>, metadata_modified |-> metadata_modified]

\* n packages, listed in the order of their names; with allChanged every
\* package but the k-th was modified after SinceTime, without it only the
\* k-th was
ListedSource(n, k, allChanged) ==
  [orgs |-> [o \in {"o1"} |-> Org(Str("o"), SourceImage)],
   pkgs |-> [name \in {ToString(i) : i \in 1..n} |->
               ListedPkg(IF (name = ToString(k)) # allChanged
                         THEN NewTime ELSE OldTime)],
   revisions |-> <<>>,
   listing |-> [i \in 1..n |-> ToString(i)]]

TargetsChanged ==
  {TargetOf([o \in {"o1"} |-> Org(Str("o"), UploadedImage)],
            [name \in names |-> Pkg(Str("t"), "active", <<>>, <<>>)], 1) :
     names \in {{}, {"p3"}, {"p3", "1"}}}

InitChanged ==
  /\ \E n \in 0..MaxPackages, k \in 0..MaxPackages, allChanged \in BOOLEAN :
       /\ k <= n
       /\ source = ListedSource(n, k, allChanged)
  /\ target \in TargetsChanged
  /\ args = [since_time |-> SinceTime]
  /\ files = {}
  /\ log = <<>>
  /\ err = ""
  /\ pc = "call"
  /\ runs = <<>>
  /\ last_revid = 0
  /\ exit = 0

FailChoicesChanged == {NoFailure, [failAt |-> 1, failKind |-> "status"]}

SyncPackagesOnly ==
  /\ pc = "call"
  /\ \E fail \in FailChoicesChanged, reversed \in BOOLEAN :
       \E st \in {sync_packages_only(
                    NewRun(target, files, fail.failAt, fail.failKind),
                    source, args.since_time, reversed)} :
           /\ fail.failAt <= st.nwrites
           /\ Finish(st, "sync_packages_only", fail)
  /\ pc' = "done"
  /\ UNCHANGED <<source, args, last_revid, exit>>

NextChanged == SyncPackagesOnly

SpecChanged == InitChanged /\ [][NextChanged]_vars

\* the source package was created or updated since since_time
ChangedSince(name) ==
  Later(convert_time(source.pkgs[name].metadata_modified),
        convert_time(args.since_time))

\* C20: when sync_packages_only completes, sync_package has run for every
\* source package whose metadata_modified is later than since_time and for
\* no other, wherever the changed packages stand in the pages of the
\* listing, and no target package absent from the source is left.
C20_EveryChangedPackageCollected ==
  (pc = "done" /\ err = "") =>
    /\ \A name \in DOMAIN source.pkgs :
         ChangedSince(name) <=> Noted("sync_package", name)
    /\ Range(list_packages(target)) \subseteq Range(list_packages(source))

----------------------------------------------------------------------------
(* Target resources that carry the same embedded id *)

\* the resources of the package in the target that were there at the start
Survivors ==
  {t \in Range(target.pkgs[args.package_name].resources) :
     \E t0 \in Range(args.target_reslist) : t0.id = t.id}

\* C21: after sync_package_resources completes without error, every target
\* resource that existed at its start and is still there embeds the id of a
\* source resource, and no two resources of the package embed the same
\* source id, also when several target resources carried the same embedded
\* id at the start.
C21_OneSurvivorPerSourceId ==
  ResDone =>
    /\ \A t \in Survivors :
         \E s \in Range(args.source_reslist) : Oid(t) = s.id
    /\ \A t, u \in Range(target.pkgs[args.package_name].resources) :
         t.id # u.id => Oid(t) # Oid(u)

----------------------------------------------------------------------------
(* The watermark of sync_loop *)

\* the pass of log l began by inspecting exactly the revisions of batch, in
\* order, and inspected no other
Inspected(l, batch) ==
  /\ Len(batch) <= Len(l)
  /\ \A k \in 1..Len(batch) : l[k].op = "revision_show" /\ l[k].rid = batch[k]
  /\ \A k \in (Len(batch) + 1)..Len(l) : l[k].op # "revision_show"

\* the pass of log l entered a method of CkanSync for a name
EnteredIn(l, op, name) == \E i \in 1..Len(l) : l[i].op = op /\ l[i].name = name

\* the revisions the source holds after a watermark, in ascending order
After(w) == [i \in 1..(Len(source.revisions) - w) |-> w + i]

\* one step of loop mode
WatermarkStep ==
  /\ (pc = "main" /\ pc' \in {"loop_full", "loop_iter"}) =>
       last_revid' = IF args.since_id # 0 THEN args.since_id
                     ELSE Len(source.revisions)
  /\ (pc = "loop_full" \/ (pc = "loop_iter" /\ runs' = runs)) =>
       last_revid' = last_revid
  /\ (pc = "loop_iter" /\ runs' # runs) =>
       /\ Inspected(log', After(last_revid))
       /\ (err' = "" /\ After(last_revid) # <<>>) =>
            /\ last_revid' = Len(source.revisions)
            /\ pc' = "loop_iter"
            /\ \A i \in (last_revid + 1)..Len(source.revisions) :
                 /\ \A o \in source.revisions[i].groups : EnteredIn(log', "sync_org", o)
                 /\ \A n \in source.revisions[i].packages :
                      EnteredIn(log', "sync_package", n)
       /\ (err' # "" \/ After(last_revid) = <<>>) => last_revid' = last_revid
       /\ err' # "" => (pc' = "exited" /\ exit' = 1)

\* C22: in loop mode the watermark starts at the given since_id, or else at
\* the latest revision id read before the initial full sync; every
\* iteration collects exactly the revisions the source holds after the
\* watermark, in order, so that none is skipped and successive batches do
\* not overlap; the watermark moves to the last revision of a batch only
\* when sync_org and sync_package ran for every organization and package
\* the batch names and nothing was raised, and otherwise stays where it was
\* and the process exits with status 1.
C22_NoRevisionSkipped == [][WatermarkStep]_vars

\* two iterations from watermark 1: the first collected revision 2, the
\* second revision 3, which the source recorded in between
C22_Witness ==
  /\ args.loop /\ args.since_id = 1
  /\ Len(runs) = 2 /\ runs[1].op = "loop" /\ runs[2].op = "loop"
  /\ err = "" /\ Shows = 1
  /\ last_revid = 3 /\ Len(source.revisions) = 3

====
